---- MODULE Spec2Model ----
(***************************************************************************)
(* Model of src/main.py: the credential pool (API_KEYS and the process-wide *)
(* cursor current_api_key_index), the model/credential binding              *)
(* (create_gemini_model) and the retry loop generate_summary_with_retry,    *)
(* run by request threads of the web server.                                *)
(*                                                                          *)
(* A Python string is modelled as a sequence of fragments; the first        *)
(* fragment is the string's first word, so "Error: No response generated."  *)
(* is <<"Error:", "No response generated.">> and                            *)
(* "Error during summarization: x" is <<"Error", "during summarization:",   *)
(* "x">>.  A keyword occurs in an error message when one of the message's   *)
(* fragments, lower-cased, is the keyword.                                  *)
(***************************************************************************)
EXTENDS Integers, Sequences, FiniteSets, TLC

\* ------------------------------------------------------------------ bounds
\* Number of request threads of the server that run concurrently.
NumThreads == 2
\* Number of requests the server receives in a run.
MaxCalls == 2
\* Longest URL given to extract_video_id.
MaxUrlLen == 5

\* ------------------------------------------------------- program constants
MAX_RETRIES == 3
BASE_DELAY == 1
\* range(2, 6): GOOGLE_API_KEY and GOOGLE_API_KEY_2..5, so at most 5 keys.
MaxKeys == 5

Threads == 1..NumThreads

\* The credentials the environment can configure, primary first.
KeyNames == <<"key1", "key2", "key3", "key4", "key5">>
\* os.getenv('GEMINI_API_KEY') unset or empty ("not api_key").
NoKey == ""
OverrideKey == "gemini_override_key"
NoModel == "no_model"

VARIABLES
    API_KEYS,               \* the ordered credential list built at import
    gemini_api_key,         \* os.getenv('GEMINI_API_KEY'), fixed for the run
    current_api_key_index,  \* the process-wide cursor
    pc,                     \* per thread: position in the request
    attempt,                \* per thread: loop variable of the retry loop
    model,                  \* per thread: credential the handle is bound to
    tmp,                    \* per thread: value read by the += of the cursor
    result,                 \* per thread: how and with what the call ended
    calls,                  \* requests received so far
    hist,                   \* per thread: history of the current call
    req,                    \* per thread: arguments and prompt of the summarize call
    fetch,                  \* the video URL being resolved and its video ID
    yt                      \* the transcript retrieval of get_youtube_transcript

vars == <<API_KEYS, gemini_api_key, current_api_key_index, pc, attempt,
          model, tmp, result, calls, hist, req, fetch, yt>>

\* ---------------------------------------------------------------- strings
RateLimitKeywords == {"429", "quota", "rate limit"}
BadKeyKeywords == {"400", "api key", "invalid", "expired"}

\* str.lower() on the fragments the model uses.
LowerFragment(f) ==
    CASE f = "Quota" -> "quota"
      [] f = "RATE LIMIT" -> "rate limit"
      [] f = "API key" -> "api key"
      [] f = "Invalid" -> "invalid"
      [] f = "Expired" -> "expired"
      [] f = "Timeout" -> "timeout"
      [] OTHER -> f

Lower(s) == [i \in DOMAIN s |-> LowerFragment(s[i])]

\* keyword in error_str
Contains(s, kw) == \E i \in DOMAIN s : s[i] = kw

\* any(keyword in error_str for keyword in [...])
AnyKeyword(s, kws) == \E kw \in kws : Contains(s, kw)

\* Mutant: the classification without .lower().
ClassifyError_CaseSensitive(msg) ==
    IF AnyKeyword(msg, RateLimitKeywords) THEN "rate_limit"
    ELSE IF AnyKeyword(msg, BadKeyKeywords) THEN "bad_credential"
    ELSE "other"

\* The three-way classification of the except branch.
ClassifyError(msg) ==
    LET error_str == Lower(msg)
    IN  IF AnyKeyword(error_str, RateLimitKeywords) THEN "rate_limit"
        ELSE IF AnyKeyword(error_str, BadKeyKeywords) THEN "bad_credential"
        ELSE "other"

\* s.startswith("Error:"), on word boundaries.
StartsWithErrorMarker(s) == Len(s) > 0 /\ s[1] = "Error:"

\* The returned messages.
SafetyMessage == <<"Error:", "Content blocked by safety filter.">>
EmptyResponseMessage(reason) == <<"Error:", "Empty response. Finish Reason:", reason>>
NoResponseMessage == <<"Error:", "No response generated.">>
QuotaExceededMessage(k) ==
    <<"Error:", "API quota exceeded.", ToString(k),
      "backup keys remaining but all failed. Please try again later.">>
AllExhaustedMessage ==
    <<"Error:", "All API keys have been exhausted. Please wait for quota reset or add more API keys.">>
BadKeyMessage ==
    <<"Error:", "Invalid or expired API key. Please check your API key configuration.">>
OtherErrorMessage(msg) == <<"Error", "during summarization:">> \o msg
FallThroughMessage == <<"Error:", "Failed to generate summary after multiple attempts.">>

\* ------------------------------------------------------ service outcomes
Texts == {<<"The", "video explains the topic.">>}
FinishReasons == {"SAFETY", "MAX_TOKENS"}
ErrorMessages ==
    { <<"429", "Too many requests">>,
      <<"RATE LIMIT", "reached,", "400">>,
      <<"400", "Bad request">>,
      <<"API key", "not valid">>,
      <<"Token is", "Expired">>,
      <<"Timeout", "while reading">> }
\* str(e) of the AttributeError raised by response.candidates on a falsy response.
NoneTypeMessage == <<"'NoneType'", "object has no attribute 'candidates'">>

\* What model.generate_content(prompt) can do: a response with text, a response
\* without text whose first candidate has a finish reason (or no such
\* attribute: empty payload), a response without candidates, a falsy
\* response, or a raised error with a message.
ServiceOutcomes ==
    [kind : {"text"}, payload : Texts]
    \cup [kind : {"candidate"}, payload : {<<r>> : r \in FinishReasons} \cup {<<>>}]
    \cup [kind : {"no_candidates", "none"}, payload : {<<>>}]
    \cup [kind : {"error"}, payload : ErrorMessages]

\* The class of an outcome, kept in the call's history.
OutcomeClass(o) ==
    CASE o.kind = "text" -> "text"
      [] o.kind = "candidate" ->
            IF o.payload = <<"SAFETY">> THEN "safety" ELSE "empty"
      [] o.kind = "no_candidates" -> "no_candidates"
      [] o.kind = "none" -> ClassifyError(NoneTypeMessage)
      [] OTHER -> ClassifyError(o.payload)

\* ------------------------------------------------------------------ state
NoResult == [how |-> "none", value |-> <<>>]
Returned(s) == [how |-> "return", value |-> s]
Raised(s) == [how |-> "raise", value |-> s]

\* History of one call of generate_summary_with_retry: service invocations,
\* cursor increments written, backoff delays slept, whether every outcome so
\* far was a rate-limit error, whether a handle rebuild failed, the cursor
\* when the call started, the last outcome of the service, and the pool's
\* remaining count (len(API_KEYS) - index - 1) when the call left the loop
\* through the final-attempt branch or by exhausting the loop.
NoOutcome == [kind |-> "not_invoked", payload |-> <<>>]

NewHist ==
    [inv |-> 0, rot |-> 0, sleeps |-> <<>>, allRL |-> TRUE, rebFail |-> FALSE,
     startIdx |-> current_api_key_index, last |-> NoOutcome, rem |-> <<>>]

\* The history of a thread that is in no call.
IdleHist == [NewHist EXCEPT !.startIdx = 0]

\* ------------------------------------------------------------- texts
\* A long text is a sequence of runs [ch, n]: the character ch repeated n
\* times, n > 0, neighbouring runs of different characters.
RECURSIVE TextLen(_)
TextLen(x) == IF x = <<>> THEN 0 ELSE x[1].n + TextLen(Tail(x))

\* x[:n]
RECURSIVE Take(_, _)
Take(x, n) ==
    IF x = <<>> \/ n <= 0 THEN <<>>
    ELSE IF x[1].n >= n THEN <<[ch |-> x[1].ch, n |-> n]>>
         ELSE <<x[1]>> \o Take(Tail(x), n - x[1].n)

\* x + y
Cat(x, y) ==
    IF x = <<>> THEN y
    ELSE IF y = <<>> THEN x
    ELSE IF x[Len(x)].ch = y[1].ch
         THEN SubSeq(x, 1, Len(x) - 1)
                \o <<[ch |-> y[1].ch, n |-> x[Len(x)].n + y[1].n]>>
                \o Tail(y)
         ELSE x \o y

\* "..."
Ellipsis == <<[ch |-> ".", n |-> 3]>>

\* The transcripts offered to the summarize functions: the first n
\* characters of one long text, for lengths around each budget.
TranscriptLengths == {0, 1, 6000, 6001, 8000, 8001, 12000, 12001}
TranscriptText(n) ==
    Take(<<[ch |-> "a", n |-> 6000], [ch |-> "b", n |-> 2000],
           [ch |-> "c", n |-> 4000], [ch |-> "d", n |-> 4]>>, n)
Transcripts == {TranscriptText(n) : n \in TranscriptLengths}

\* The option values of a request: known ones and unrecognized ones.
SummaryStyles == {"timeline", "haiku"}
DetailLevels == {"brief", "medium", "detailed", "full"}
Translations == {"none", "es"}

\* Lines 289-294: the budget of the detail level.
max_transcript_length(detail_level) ==
    IF detail_level = "brief" THEN 6000
    ELSE IF detail_level = "detailed" THEN 12000
    ELSE 8000

\* Mutant: a transcript of exactly the budget is cut and marked too.
Truncate_AtOrOver(transcript, max) ==
    IF TextLen(transcript) >= max
    THEN Cat(Take(transcript, max), Ellipsis)
    ELSE transcript

\* Lines 251-252 and 296-297: transcript[:max] + "..." when longer than max.
Truncate(transcript, max) ==
    IF TextLen(transcript) > max
    THEN Cat(Take(transcript, max), Ellipsis)
    ELSE transcript

\* Lines 300-340: style_prompts.get(summary_style, style_prompts['default']),
\* each prompt named by its first line.
style_prompts(summary_style) ==
    CASE summary_style = "bullet-points" -> "Provide a bullet-point summary with:"
      [] summary_style = "paragraphs" ->
            "Provide a well-structured paragraph summary with:"
      [] summary_style = "qa" -> "Provide a Q&A format summary with:"
      [] summary_style = "timeline" -> "Provide a timeline-style summary with:"
      [] OTHER -> "Provide a clear summary covering:"

\* Lines 343-347 and 351: detail_instructions.get(detail_level, medium).
detail_instructions(detail_level) ==
    CASE detail_level = "brief" ->
            "Keep it concise and focus only on the most essential information."
      [] detail_level = "detailed" ->
            "Include comprehensive details, examples, and thorough explanations."
      [] OTHER -> "Provide a balanced level of detail with key information."

\* Lines 354-362: the translation instruction, empty for 'none'.
translation_instruction(translate_to) ==
    IF translate_to = "none" THEN <<>>
    ELSE <<"IMPORTANT: Translate the entire summary to",
           IF translate_to = "es" THEN "Spanish" ELSE translate_to>>

EmptyTranscriptMessage == <<"Error:", "Transcript is empty.">>

\* summarize_transcript(transcript, model) up to its call of
\* generate_summary_with_retry: the early return, or the prompt.
summarize_transcript(transcript) ==
    IF transcript = <<>>
    THEN [ret |-> <<EmptyTranscriptMessage>>, prompt |-> <<>>]
    ELSE [ret |-> <<>>,
          prompt |-> <<[head |-> "Summarize this YouTube video transcript in an organized format:",
                        transcript |-> Truncate(transcript, 8000),
                        style_instruction |-> "Provide a clear summary covering:",
                        detail_instruction |-> "",
                        translation_instruction |-> <<>>]>>]

\* Mutant: the advanced function without its empty-transcript test.
summarize_transcript_advanced_NoEmptyCheck(transcript, summary_style, detail_level, translate_to) ==
    [ret |-> <<>>,
     prompt |-> <<[head |-> "Summarize this YouTube video transcript in the requested format:",
                   transcript |-> Truncate(transcript,
                                           max_transcript_length(detail_level)),
                   style_instruction |-> style_prompts(summary_style),
                   detail_instruction |-> detail_instructions(detail_level),
                   translation_instruction |->
                        translation_instruction(translate_to)]>>]

\* summarize_transcript_advanced(transcript, model, summary_style,
\* detail_level, translate_to) up to its call of generate_summary_with_retry.
summarize_transcript_advanced(transcript, summary_style, detail_level, translate_to) ==
    IF transcript = <<>>
    THEN [ret |-> <<EmptyTranscriptMessage>>, prompt |-> <<>>]
    ELSE [ret |-> <<>>,
          prompt |-> <<[head |-> "Summarize this YouTube video transcript in the requested format:",
                        transcript |-> Truncate(transcript,
                                                max_transcript_length(detail_level)),
                        style_instruction |-> style_prompts(summary_style),
                        detail_instruction |-> detail_instructions(detail_level),
                        translation_instruction |->
                             translation_instruction(translate_to)]>>]

\* No summarize call in progress.
NoRequest ==
    [fn |-> "none", transcript |-> <<>>, summary_style |-> "",
     detail_level |-> "", translate_to |-> "", prompt |-> <<>>]

\* The argument lists of the two summarize functions.
SummarizeArgs ==
    {[fn |-> "summarize_transcript", transcript |-> x, summary_style |-> "",
      detail_level |-> "", translate_to |-> "", prompt |-> <<>>] :
        x \in Transcripts}
    \cup
    {[fn |-> "summarize_transcript_advanced", transcript |-> x,
      summary_style |-> st, detail_level |-> d, translate_to |-> tr,
      prompt |-> <<>>] :
        x \in Transcripts, st \in SummaryStyles, d \in DetailLevels,
        tr \in Translations}

\* -------------------------------------------------------------- URLs
\* A URL is a sequence of characters.
UrlChars == {"v", "=", "&", "/", "a"}
Urls == UNION {[1..n -> UrlChars] : n \in 1..MaxUrlLen}

\* s.find(sep) + 1: the position of the first occurrence of sep, 0 if none.
Find(s, sep) ==
    LET hits == {i \in 1..(Len(s) - Len(sep) + 1) :
                    SubSeq(s, i, i + Len(sep) - 1) = sep}
    IN  IF hits = {} THEN 0
        ELSE CHOOSE i \in hits : \A j \in hits : i <= j

\* s.split(sep)
RECURSIVE split(_, _)
split(s, sep) ==
    LET i == Find(s, sep)
    IN  IF i = 0 THEN <<s>>
        ELSE <<SubSeq(s, 1, i - 1)>>
                \o split(SubSeq(s, i + Len(sep), Len(s)), sep)

\* Mutant: the last piece of the split at "v=" is taken.
extract_video_id_LastPiece(video_url) ==
    IF Find(video_url, <<"v", "=">>) # 0
    THEN LET pieces == split(video_url, <<"v", "=">>)
         IN  split(pieces[Len(pieces)], <<"&">>)[1]
    ELSE LET pieces == split(video_url, <<"/">>)
         IN  pieces[Len(pieces)]

\* extract_video_id(video_url)
extract_video_id(video_url) ==
    IF Find(video_url, <<"v", "=">>) # 0
    THEN split(split(video_url, <<"v", "=">>)[2], <<"&">>)[1]
    ELSE LET pieces == split(video_url, <<"/">>)
         IN  pieces[Len(pieces)]

\* ------------------------------------------------- transcript source
\* The transcripts the source can offer for a video: a language code and
\* the fragments' texts.
SourceTranscripts ==
    {[language_code |-> "en", texts |-> <<"hello", "big", "world">>],
     [language_code |-> "es", texts |-> <<"hola">>]}

\* What the source offers for the video, in source order.
Offers ==
    {<<>>} \cup {<<a>> : a \in SourceTranscripts}
           \cup {<<a, b>> : a, b \in SourceTranscripts}

\* The language_code argument; "" stands for None (both are falsy).
LanguageCodes == {"", "en", "de"}

\* [t.language_code for t in transcript_list_obj]
language_codes(offered) == [i \in DOMAIN offered |-> offered[i].language_code]

\* YouTubeTranscriptApi.get_transcript(video_id, languages): the transcript
\* of the first requested language the source offers, else an exception.
get_transcript(offered, languages) ==
    LET found == {<<i, j>> \in (DOMAIN languages) \X (DOMAIN offered) :
                     offered[j].language_code = languages[i]}
    IN  IF found = {}
        THEN [ok |-> FALSE, data |-> <<>>]
        ELSE LET best == CHOOSE h \in found :
                            \A g \in found :
                                \/ h[1] < g[1]
                                \/ h[1] = g[1] /\ h[2] <= g[2]
             IN  [ok |-> TRUE, data |-> offered[best[2]].texts]

\* sep.join(items): the items with one sep between neighbours.
RECURSIVE join(_, _)
join(sep, items) ==
    IF items = <<>> THEN <<>>
    ELSE IF Len(items) = 1 THEN items
    ELSE <<items[1], sep>> \o join(sep, Tail(items))

\* The values get_youtube_transcript returns.
NoneValue == [kind |-> "None", text |-> <<>>]
StrValue(x) == [kind |-> "str", text |-> x]
NotReturned == [kind |-> "pending", text |-> <<>>]

\* get_youtube_transcript is not being called.
NoRetrieval ==
    [stage |-> "none", language_code |-> "", offered |-> <<>>,
     requested |-> <<>>, listed |-> FALSE, failed |-> FALSE,
     ret |-> NotReturned]

\* No URL is being resolved.
NoFetch == [stage |-> "none", video_url |-> <<>>, video_id |-> <<>>]

Init ==
    /\ API_KEYS \in {SubSeq(KeyNames, 1, n) : n \in 1..MaxKeys}
    /\ gemini_api_key \in {NoKey, OverrideKey}
    /\ current_api_key_index = 0
    /\ pc = [t \in Threads |-> "idle"]
    /\ attempt = [t \in Threads |-> 0]
    /\ model = [t \in Threads |-> NoModel]
    /\ tmp = [t \in Threads |-> 0]
    /\ result = [t \in Threads |-> NoResult]
    /\ calls = 0
    /\ hist = [t \in Threads |-> IdleHist]
    /\ req = [t \in Threads |-> NoRequest]
    /\ fetch = NoFetch
    /\ yt = NoRetrieval

\* get_current_api_status()
get_current_api_status ==
    [current_key_index |-> current_api_key_index + 1,
     total_keys |-> Len(API_KEYS),
     remaining_keys |-> Len(API_KEYS) - current_api_key_index - 1]

\* Mutant: the pool's credential is preferred to the override credential.
create_gemini_model_PoolFirst(extFails) ==
    LET api_key ==
            IF current_api_key_index < Len(API_KEYS)
            THEN <<API_KEYS[current_api_key_index + 1]>>
            ELSE IF gemini_api_key # NoKey THEN <<gemini_api_key>> ELSE <<>>
    IN  IF api_key = <<>>
        THEN [ok |-> FALSE, handle |-> NoModel,
              error |-> <<"All API keys have been exhausted.",
                          "Please add more keys or wait for quota reset.">>]
        ELSE IF extFails
             THEN [ok |-> FALSE, handle |-> NoModel, error |-> <<"configure failed">>]
             ELSE [ok |-> TRUE, handle |-> api_key[1], error |-> <<>>]

\* create_gemini_model(): the override credential if configured, else the
\* credential at the cursor, else the pool-exhausted exception; extFails is
\* genai.configure / genai.GenerativeModel raising.
create_gemini_model(extFails) ==
    LET api_key ==
            IF gemini_api_key # NoKey THEN <<gemini_api_key>>
            ELSE IF current_api_key_index < Len(API_KEYS)
                 THEN <<API_KEYS[current_api_key_index + 1]>>
                 ELSE <<>>
    IN  IF api_key = <<>>
        THEN [ok |-> FALSE, handle |-> NoModel,
              error |-> <<"All API keys have been exhausted.",
                          "Please add more keys or wait for quota reset.">>]
        ELSE IF extFails
             THEN [ok |-> FALSE, handle |-> NoModel, error |-> <<"configure failed">>]
             ELSE [ok |-> TRUE, handle |-> api_key[1], error |-> <<>>]

\* --------------------------------------------------------------- actions
\* "return s" of generate_summary_with_retry.
Return(t, s) ==
    /\ pc' = [pc EXCEPT ![t] = "done"]
    /\ result' = [result EXCEPT ![t] = Returned(s)]

\* summarize() / ask_question(): model = create_gemini_model(), then the call
\* of generate_summary_with_retry; an exception of create_gemini_model is
\* caught by the handler, which answers with status 500.
StartRequest(t) ==
    /\ pc[t] = "idle"
    /\ calls < MaxCalls
    /\ calls' = calls + 1
    /\ hist' = [hist EXCEPT ![t] = NewHist]
    /\ attempt' = [attempt EXCEPT ![t] = 0]
    /\ \E extFails \in BOOLEAN :
         LET r == create_gemini_model(extFails)
         IN  IF r.ok
             THEN /\ model' = [model EXCEPT ![t] = r.handle]
                  /\ pc' = [pc EXCEPT ![t] = "invoke"]
                  /\ result' = [result EXCEPT ![t] = NoResult]
             ELSE /\ model' = [model EXCEPT ![t] = NoModel]
                  /\ pc' = [pc EXCEPT ![t] = "done"]
                  /\ result' = [result EXCEPT ![t] =
                         [how |-> "http500",
                          value |-> <<"Failed to generate summary:">> \o r.error]]
    /\ UNCHANGED <<yt, fetch, req, API_KEYS, gemini_api_key, current_api_key_index, tmp>>

\* Mutant: a safety block is retried with backoff instead of returned.
OnResponse_RetriesSafety(t, o) ==
    CASE o.kind = "text" -> Return(t, o.payload)
      [] o.kind = "candidate" ->
            IF o.payload = <<"SAFETY">>
            THEN pc' = [pc EXCEPT ![t] = "backoff"] /\ UNCHANGED result
            ELSE Return(t, EmptyResponseMessage(
                        IF o.payload # <<>> THEN o.payload[1] ELSE "UNKNOWN"))
      [] OTHER -> Return(t, NoResponseMessage)

\* Mutant: a text response is not returned; the loop goes on as after a
\* rate-limit error.
OnResponse_TextIgnored(t, o) ==
    CASE o.kind = "text" ->
            pc' = [pc EXCEPT ![t] = "rotate_check"] /\ UNCHANGED result
      [] o.kind = "candidate" ->
            IF o.payload = <<"SAFETY">>
            THEN Return(t, SafetyMessage)
            ELSE Return(t, EmptyResponseMessage(
                        IF o.payload # <<>> THEN o.payload[1] ELSE "UNKNOWN"))
      [] OTHER -> Return(t, NoResponseMessage)

\* Lines 190-201: a response that is not an exception.
OnResponse(t, o) ==
    CASE o.kind = "text" -> Return(t, o.payload)
      [] o.kind = "candidate" ->
            IF o.payload = <<"SAFETY">>
            THEN Return(t, SafetyMessage)
            ELSE Return(t, EmptyResponseMessage(
                        IF o.payload # <<>> THEN o.payload[1] ELSE "UNKNOWN"))
      [] OTHER -> Return(t, NoResponseMessage)

\* Mutant: the bad-credential keywords are tested before the rate-limit
\* keywords.
OnError_BadKeyFirst(t, msg) ==
    LET error_str == Lower(msg)
    IN  IF AnyKeyword(error_str, BadKeyKeywords)
        THEN Return(t, BadKeyMessage)
        ELSE IF AnyKeyword(error_str, RateLimitKeywords)
             THEN pc' = [pc EXCEPT ![t] = "rotate_check"] /\ UNCHANGED result
             ELSE Return(t, OtherErrorMessage(msg))

\* Lines 203-205 and 227-230: the except branch up to the rotation test.
OnError(t, msg) ==
    LET class == ClassifyError(msg)
    IN  CASE class = "rate_limit" ->
                /\ pc' = [pc EXCEPT ![t] = "rotate_check"]
                /\ UNCHANGED result
          [] class = "bad_credential" -> Return(t, BadKeyMessage)
          [] OTHER -> Return(t, OtherErrorMessage(msg))

\* Line 188: response = model.generate_content(prompt), and what the loop
\* body does with the outcome.
Invoke(t) ==
    /\ pc[t] = "invoke"
    /\ attempt[t] < MAX_RETRIES
    /\ \E o \in ServiceOutcomes :
         /\ hist' = [hist EXCEPT ![t] =
                [@ EXCEPT !.inv = @ + 1,
                          !.last = o,
                          !.allRL = @ /\ OutcomeClass(o) = "rate_limit"]]
         /\ CASE o.kind = "error" -> OnError(t, o.payload)
              [] o.kind = "none" -> OnError(t, NoneTypeMessage)
              [] OTHER -> OnResponse(t, o)
    /\ UNCHANGED <<yt, fetch, req, API_KEYS, gemini_api_key, current_api_key_index, attempt,
                   model, tmp, calls>>

\* Line 232: the for loop is exhausted.
FallThrough(t) ==
    /\ pc[t] = "invoke"
    /\ attempt[t] = MAX_RETRIES
    /\ Return(t, FallThroughMessage)
    /\ hist' = [hist EXCEPT ![t].rem =
                    <<Len(API_KEYS) - current_api_key_index - 1>>]
    /\ UNCHANGED <<yt, fetch, req, API_KEYS, gemini_api_key, current_api_key_index, attempt,
                   model, tmp, calls>>

\* Mutant: the successor test off by one (index < len(API_KEYS)).
RotateCheck_OffByOne(t) ==
    /\ pc[t] = "rotate_check"
    /\ pc' = [pc EXCEPT ![t] =
            IF current_api_key_index < Len(API_KEYS)
            THEN "incr_read" ELSE "backoff"]
    /\ UNCHANGED <<yt, fetch, req, API_KEYS, gemini_api_key, current_api_key_index, attempt,
                   model, tmp, result, calls, hist>>

\* Line 207: if current_api_key_index < len(API_KEYS) - 1
RotateCheck(t) ==
    /\ pc[t] = "rotate_check"
    /\ pc' = [pc EXCEPT ![t] =
            IF current_api_key_index < Len(API_KEYS) - 1
            THEN "incr_read" ELSE "backoff"]
    /\ UNCHANGED <<yt, fetch, req, API_KEYS, gemini_api_key, current_api_key_index, attempt,
                   model, tmp, result, calls, hist>>

\* Line 208, the load of current_api_key_index += 1
IncrRead(t) ==
    /\ pc[t] = "incr_read"
    /\ tmp' = [tmp EXCEPT ![t] = current_api_key_index]
    /\ pc' = [pc EXCEPT ![t] = "incr_write"]
    /\ UNCHANGED <<yt, fetch, req, API_KEYS, gemini_api_key, current_api_key_index, attempt,
                   model, result, calls, hist>>

\* Mutant: with an override credential configured the cursor is left alone.
IncrWrite_NotWithOverride(t) ==
    /\ pc[t] = "incr_write"
    /\ current_api_key_index' =
          IF gemini_api_key # NoKey THEN current_api_key_index ELSE tmp[t] + 1
    /\ tmp' = [tmp EXCEPT ![t] = 0]
    /\ pc' = [pc EXCEPT ![t] = "rebuild"]
    /\ hist' = [hist EXCEPT ![t].rot = @ + 1]
    /\ UNCHANGED <<yt, fetch, req, API_KEYS, gemini_api_key, attempt, model, result, calls>>

\* Line 208, the store of current_api_key_index += 1 (the loaded value is
\* dead afterwards).
IncrWrite(t) ==
    /\ pc[t] = "incr_write"
    /\ current_api_key_index' = tmp[t] + 1
    /\ tmp' = [tmp EXCEPT ![t] = 0]
    /\ pc' = [pc EXCEPT ![t] = "rebuild"]
    /\ hist' = [hist EXCEPT ![t].rot = @ + 1]
    /\ UNCHANGED <<yt, fetch, req, API_KEYS, gemini_api_key, attempt, model, result, calls>>

\* Mutant: the rebuild without its own try/except, so its exception leaves
\* the call.
Rebuild_Unguarded(t) ==
    /\ pc[t] = "rebuild"
    /\ \E extFails \in BOOLEAN :
         LET r == create_gemini_model(extFails)
         IN  IF r.ok
             THEN /\ model' = [model EXCEPT ![t] = r.handle]
                  /\ attempt' = [attempt EXCEPT ![t] = @ + 1]
                  /\ pc' = [pc EXCEPT ![t] = "invoke"]
                  /\ UNCHANGED <<hist, result>>
             ELSE /\ pc' = [pc EXCEPT ![t] = "done"]
                  /\ result' = [result EXCEPT ![t] = Raised(r.error)]
                  /\ hist' = [hist EXCEPT ![t].rebFail = TRUE]
                  /\ UNCHANGED <<model, attempt>>
    /\ UNCHANGED <<yt, fetch, req, API_KEYS, gemini_api_key, current_api_key_index, tmp, calls>>

\* Mutant: the rotation's continue re-enters the same attempt (the loop
\* index is not advanced).
Rebuild_SameAttempt(t) ==
    /\ pc[t] = "rebuild"
    /\ \E extFails \in BOOLEAN :
         LET r == create_gemini_model(extFails)
         IN  IF r.ok
             THEN /\ model' = [model EXCEPT ![t] = r.handle]
                  /\ pc' = [pc EXCEPT ![t] = "invoke"]
                  /\ UNCHANGED <<hist, attempt>>
             ELSE /\ pc' = [pc EXCEPT ![t] = "backoff"]
                  /\ hist' = [hist EXCEPT ![t].rebFail = TRUE]
                  /\ UNCHANGED <<model, attempt>>
    /\ UNCHANGED <<yt, fetch, req, API_KEYS, gemini_api_key, current_api_key_index, tmp,
                   result, calls>>

\* Lines 210-214: model = create_gemini_model(); continue -- or, when the
\* rebuild raises, fall to the backoff test with the old handle.
Rebuild(t) ==
    /\ pc[t] = "rebuild"
    /\ \E extFails \in BOOLEAN :
         LET r == create_gemini_model(extFails)
         IN  IF r.ok
             THEN /\ model' = [model EXCEPT ![t] = r.handle]
                  /\ attempt' = [attempt EXCEPT ![t] = @ + 1]
                  /\ pc' = [pc EXCEPT ![t] = "invoke"]
                  /\ UNCHANGED hist
             ELSE /\ pc' = [pc EXCEPT ![t] = "backoff"]
                  /\ hist' = [hist EXCEPT ![t].rebFail = TRUE]
                  /\ UNCHANGED <<model, attempt>>
    /\ UNCHANGED <<yt, fetch, req, API_KEYS, gemini_api_key, current_api_key_index, tmp,
                   result, calls>>

\* Mutant: the exponent counts the attempts from one (2 ** (n + 1)).
Pow2_CountsFromOne(n) == IF n = 0 THEN 2 ELSE IF n = 1 THEN 4 ELSE 8

\* 2 ** n
Pow2(n) == IF n = 0 THEN 1 ELSE IF n = 1 THEN 2 ELSE IF n = 2 THEN 4 ELSE 8

\* Lines 216-226: sleep and go to the next attempt, or on the last attempt
\* return the message chosen by remaining_keys.
Backoff(t) ==
    /\ pc[t] = "backoff"
    /\ IF attempt[t] < MAX_RETRIES - 1
       THEN /\ hist' = [hist EXCEPT ![t].sleeps =
                            Append(@, BASE_DELAY * Pow2(attempt[t]))]
            /\ attempt' = [attempt EXCEPT ![t] = @ + 1]
            /\ pc' = [pc EXCEPT ![t] = "invoke"]
            /\ UNCHANGED result
       ELSE LET remaining_keys == Len(API_KEYS) - current_api_key_index - 1
            IN  /\ hist' = [hist EXCEPT ![t].rem = <<remaining_keys>>]
                /\ UNCHANGED attempt
                /\ IF remaining_keys > 0
                   THEN Return(t, QuotaExceededMessage(remaining_keys))
                   ELSE Return(t, AllExhaustedMessage)
    /\ UNCHANGED <<yt, fetch, req, API_KEYS, gemini_api_key, current_api_key_index, model,
                   tmp, calls>>

\* Lines 521 and 573: return jsonify(...); the handler's locals are gone and
\* the thread is free for the next request.
Respond(t) ==
    /\ pc[t] = "done"
    /\ pc' = [pc EXCEPT ![t] = "idle"]
    /\ attempt' = [attempt EXCEPT ![t] = 0]
    /\ model' = [model EXCEPT ![t] = NoModel]
    /\ result' = [result EXCEPT ![t] = NoResult]
    /\ hist' = [hist EXCEPT ![t] = IdleHist]
    /\ req' = [req EXCEPT ![t] = NoRequest]
    /\ UNCHANGED <<yt, fetch, API_KEYS, gemini_api_key, current_api_key_index, tmp,
                   calls>>

\* One step of thread t.
Step(t) ==
    \/ Respond(t)
    \/ StartRequest(t)
    \/ Invoke(t)
    \/ FallThrough(t)
    \/ RotateCheck(t)
    \/ IncrRead(t)
    \/ IncrWrite(t)
    \/ Rebuild(t)
    \/ Backoff(t)

\* Requests served by concurrent threads.
Next == \E t \in Threads : Step(t)

Spec == Init /\ [][Next]_vars

\* One request at a time: a thread steps only while no other is in a call.
Alone(t) == \A u \in Threads \ {t} : pc[u] = "idle"

NextSeq ==
    \E t \in Threads :
        \/ Alone(t) /\ Respond(t)
        \/ Alone(t) /\ StartRequest(t)
        \/ Alone(t) /\ Invoke(t)
        \/ Alone(t) /\ FallThrough(t)
        \/ Alone(t) /\ RotateCheck(t)
        \/ Alone(t) /\ IncrRead(t)
        \/ Alone(t) /\ IncrWrite(t)
        \/ Alone(t) /\ Rebuild(t)
        \/ Alone(t) /\ Backoff(t)

SpecSeq == Init /\ [][NextSeq]_vars

\* The pool as racing requests can leave it (lines 207-208 are not atomic):
\* with at least two keys the cursor may stand anywhere up to
\* len(API_KEYS) - 2 + NumThreads when the threads are idle again.
InitAnyCursor ==
    /\ API_KEYS \in {SubSeq(KeyNames, 1, n) : n \in 1..MaxKeys}
    /\ gemini_api_key \in {NoKey, OverrideKey}
    /\ current_api_key_index \in
          IF Len(API_KEYS) >= 2 THEN 0..(Len(API_KEYS) - 2 + NumThreads) ELSE {0}
    /\ pc = [t \in Threads |-> "idle"]
    /\ attempt = [t \in Threads |-> 0]
    /\ model = [t \in Threads |-> NoModel]
    /\ tmp = [t \in Threads |-> 0]
    /\ result = [t \in Threads |-> NoResult]
    /\ calls = 0
    /\ hist = [t \in Threads |-> IdleHist]
    /\ req = [t \in Threads |-> NoRequest]
    /\ fetch = NoFetch
    /\ yt = NoRetrieval

\* One request at a time, from any cursor the races can leave.
SpecAnyCursor == InitAnyCursor /\ [][NextSeq]_vars

\* A step of thread t inside generate_summary_with_retry.
CallStep(t) ==
    \/ Invoke(t)
    \/ FallThrough(t)
    \/ RotateCheck(t)
    \/ IncrRead(t)
    \/ IncrWrite(t)
    \/ Rebuild(t)
    \/ Backoff(t)

\* One request at a time; a thread inside the call keeps running: every
\* service call returns (line 188), time.sleep returns (line 219), and no
\* step of the loop waits for another thread.
SpecSeqFair ==
    SpecSeq /\ \A t \in Threads : WF_vars(Alone(t) /\ CallStep(t))

\* A call of summarize_transcript or summarize_transcript_advanced with a
\* handle the caller built (lines 518-519): the early return for an empty
\* transcript, else the prompt and the entry of the retry loop.
SummarizeCall(t) ==
    /\ pc[t] = "idle"
    /\ calls < MaxCalls
    /\ calls' = calls + 1
    /\ hist' = [hist EXCEPT ![t] = NewHist]
    /\ attempt' = [attempt EXCEPT ![t] = 0]
    /\ \E extFails \in BOOLEAN, a \in SummarizeArgs :
         LET m == create_gemini_model(extFails)
             r == IF a.fn = "summarize_transcript"
                  THEN summarize_transcript(a.transcript)
                  ELSE summarize_transcript_advanced(a.transcript,
                            a.summary_style, a.detail_level, a.translate_to)
         IN  IF ~m.ok
             THEN /\ model' = [model EXCEPT ![t] = NoModel]
                  /\ pc' = [pc EXCEPT ![t] = "done"]
                  /\ result' = [result EXCEPT ![t] =
                         [how |-> "http500",
                          value |-> <<"Failed to generate summary:">> \o m.error]]
                  /\ UNCHANGED req
             ELSE /\ model' = [model EXCEPT ![t] = m.handle]
                  /\ req' = [req EXCEPT ![t] = [a EXCEPT !.prompt = r.prompt]]
                  /\ IF r.ret # <<>>
                     THEN Return(t, r.ret[1])
                     ELSE /\ pc' = [pc EXCEPT ![t] = "invoke"]
                          /\ result' = [result EXCEPT ![t] = NoResult]
    /\ UNCHANGED <<yt, fetch, API_KEYS, gemini_api_key, current_api_key_index, tmp>>

NextPrompt ==
    \E t \in Threads :
        \/ Alone(t) /\ Respond(t)
        \/ Alone(t) /\ SummarizeCall(t)
        \/ Alone(t) /\ Invoke(t)
        \/ Alone(t) /\ FallThrough(t)
        \/ Alone(t) /\ RotateCheck(t)
        \/ Alone(t) /\ IncrRead(t)
        \/ Alone(t) /\ IncrWrite(t)
        \/ Alone(t) /\ Rebuild(t)
        \/ Alone(t) /\ Backoff(t)

\* A pool of one key or of four, the cursor at its start.
InitPrompt ==
    /\ API_KEYS \in {SubSeq(KeyNames, 1, n) : n \in {1, 4}}
    /\ gemini_api_key \in {NoKey, OverrideKey}
    /\ current_api_key_index = 0
    /\ pc = [t \in Threads |-> "idle"]
    /\ attempt = [t \in Threads |-> 0]
    /\ model = [t \in Threads |-> NoModel]
    /\ tmp = [t \in Threads |-> 0]
    /\ result = [t \in Threads |-> NoResult]
    /\ calls = 0
    /\ hist = [t \in Threads |-> IdleHist]
    /\ req = [t \in Threads |-> NoRequest]
    /\ fetch = NoFetch
    /\ yt = NoRetrieval

\* Summarize calls with every argument list, one at a time.
SpecPrompt == InitPrompt /\ [][NextPrompt]_vars

\* get_youtube_transcript, line 155: video_id = extract_video_id(video_url)
ExtractVideoId ==
    /\ fetch.stage = "called"
    /\ fetch' = [fetch EXCEPT !.stage = "extracted",
                              !.video_id = extract_video_id(fetch.video_url)]
    /\ UNCHANGED <<yt, req, API_KEYS, gemini_api_key, current_api_key_index, pc,
                   attempt, model, tmp, result, calls, hist>>

\* A call of extract_video_id with any URL.
InitUrl ==
    /\ API_KEYS \in {SubSeq(KeyNames, 1, n) : n \in 1..MaxKeys}
    /\ gemini_api_key \in {NoKey, OverrideKey}
    /\ current_api_key_index = 0
    /\ pc = [t \in Threads |-> "idle"]
    /\ attempt = [t \in Threads |-> 0]
    /\ model = [t \in Threads |-> NoModel]
    /\ tmp = [t \in Threads |-> 0]
    /\ result = [t \in Threads |-> NoResult]
    /\ calls = 0
    /\ hist = [t \in Threads |-> IdleHist]
    /\ req = [t \in Threads |-> NoRequest]
    /\ fetch \in {[stage |-> "called", video_url |-> u, video_id |-> <<>>] :
                    u \in Urls}
    /\ yt = NoRetrieval

NextUrl == ExtractVideoId

SpecUrl == InitUrl /\ [][NextUrl]_vars

\* Mutant: a direct request that also names every language of the source.
RequestDirect_FallsBackToOffered ==
    /\ fetch.stage = "extracted"
    /\ yt.stage = "ready"
    /\ yt.language_code # ""
    /\ \E raises \in BOOLEAN :
         LET languages == <<yt.language_code>> \o language_codes(yt.offered)
             r == IF raises THEN [ok |-> FALSE, data |-> <<>>]
                  ELSE get_transcript(yt.offered, languages)
         IN  yt' = [yt EXCEPT
                      !.stage = "returned",
                      !.requested = Append(@, [video_id |-> fetch.video_id,
                                               languages |-> languages]),
                      !.failed = raises,
                      !.ret = IF r.ok THEN StrValue(join(" ", r.data))
                              ELSE NoneValue]
    /\ UNCHANGED <<fetch, req, API_KEYS, gemini_api_key, current_api_key_index,
                   pc, attempt, model, tmp, result, calls, hist>>

\* Lines 157-158 with 166-170: get_transcript(video_id, languages=
\* [language_code]); the joined texts, or None when the call raises (the
\* source fails, or has no transcript in that language).
RequestDirect ==
    /\ fetch.stage = "extracted"
    /\ yt.stage = "ready"
    /\ yt.language_code # ""
    /\ \E raises \in BOOLEAN :
         LET languages == <<yt.language_code>>
             r == IF raises THEN [ok |-> FALSE, data |-> <<>>]
                  ELSE get_transcript(yt.offered, languages)
         IN  yt' = [yt EXCEPT
                      !.stage = "returned",
                      !.requested = Append(@, [video_id |-> fetch.video_id,
                                               languages |-> languages]),
                      !.failed = raises,
                      !.ret = IF r.ok THEN StrValue(join(" ", r.data))
                              ELSE NoneValue]
    /\ UNCHANGED <<fetch, req, API_KEYS, gemini_api_key, current_api_key_index,
                   pc, attempt, model, tmp, result, calls, hist>>

\* Lines 160-163 with 168-170: list_transcripts(video_id) and the language
\* codes; None when the call raises or the list is empty.
ListTranscripts ==
    /\ fetch.stage = "extracted"
    /\ yt.stage = "ready"
    /\ yt.language_code = ""
    /\ \E raises \in BOOLEAN :
         yt' = [yt EXCEPT
                  !.listed = TRUE,
                  !.failed = raises,
                  !.stage = IF raises \/ language_codes(yt.offered) = <<>>
                            THEN "returned" ELSE "listed",
                  !.ret = IF raises \/ language_codes(yt.offered) = <<>>
                          THEN NoneValue ELSE NotReturned]
    /\ UNCHANGED <<fetch, req, API_KEYS, gemini_api_key, current_api_key_index,
                   pc, attempt, model, tmp, result, calls, hist>>

\* Lines 164-170: get_transcript(video_id, languages=language_codes); the
\* joined texts, or None when the call raises.
RequestListed ==
    /\ yt.stage = "listed"
    /\ \E raises \in BOOLEAN :
         LET languages == language_codes(yt.offered)
             r == IF raises THEN [ok |-> FALSE, data |-> <<>>]
                  ELSE get_transcript(yt.offered, languages)
         IN  yt' = [yt EXCEPT
                      !.stage = "returned",
                      !.requested = Append(@, [video_id |-> fetch.video_id,
                                               languages |-> languages]),
                      !.failed = raises,
                      !.ret = IF r.ok THEN StrValue(join(" ", r.data))
                              ELSE NoneValue]
    /\ UNCHANGED <<fetch, req, API_KEYS, gemini_api_key, current_api_key_index,
                   pc, attempt, model, tmp, result, calls, hist>>

\* A call of get_youtube_transcript(video_url, language_code) with a short
\* URL, any language code, and any offer of the source.
InitRetrieval ==
    /\ API_KEYS \in {SubSeq(KeyNames, 1, n) : n \in 1..MaxKeys}
    /\ gemini_api_key \in {NoKey, OverrideKey}
    /\ current_api_key_index = 0
    /\ pc = [t \in Threads |-> "idle"]
    /\ attempt = [t \in Threads |-> 0]
    /\ model = [t \in Threads |-> NoModel]
    /\ tmp = [t \in Threads |-> 0]
    /\ result = [t \in Threads |-> NoResult]
    /\ calls = 0
    /\ hist = [t \in Threads |-> IdleHist]
    /\ req = [t \in Threads |-> NoRequest]
    /\ fetch \in {[stage |-> "called", video_url |-> u, video_id |-> <<>>] :
                    u \in {v \in Urls : Len(v) <= 2}}
    /\ yt \in {[NoRetrieval EXCEPT !.stage = "ready", !.language_code = lc,
                                   !.offered = o] :
                  lc \in LanguageCodes, o \in Offers}

NextRetrieval ==
    \/ ExtractVideoId
    \/ RequestDirect
    \/ ListTranscripts
    \/ RequestListed

SpecRetrieval == InitRetrieval /\ [][NextRetrieval]_vars

TypeOK ==
    /\ current_api_key_index \in Int
    /\ \A t \in Threads :
         /\ pc[t] \in {"idle", "invoke", "rotate_check", "incr_read",
                       "incr_write", "rebuild", "backoff", "done"}
         /\ attempt[t] \in 0..MAX_RETRIES
         /\ result[t].how \in {"none", "return", "raise", "http500"}

\* ------------------------------------------------------ claim vocabulary
\* The service raised an error whose message holds a rate-limit keyword.
IsRateLimitOutcome(o) ==
    /\ o.kind = "error"
    /\ \E i \in DOMAIN o.payload :
         LowerFragment(o.payload[i]) \in {"429", "quota", "rate limit"}

\* The service raised an error whose message holds a bad-credential keyword
\* and no rate-limit keyword.
IsBadCredentialOutcome(o) ==
    /\ o.kind = "error"
    /\ ~IsRateLimitOutcome(o)
    /\ \E i \in DOMAIN o.payload :
         LowerFragment(o.payload[i]) \in {"400", "api key", "invalid", "expired"}

\* A response that carries no text.
IsNoTextOutcome(o) == o.kind \in {"candidate", "no_candidates"}

\* Thread t's call of generate_summary_with_retry has returned.
CallReturned(t) == pc[t] = "done" /\ hist[t].inv > 0

\* Thread t's call ran with every service outcome a rate-limit error.
AllRateLimited(t) == hist[t].inv > 0 /\ hist[t].allRL

\* The step is a service invocation by thread t.
InvokedBy(t) == hist'[t].inv = hist[t].inv + 1

\* ------------------------------------------------------------------ C1
\* C1: with no override credential and the cursor at 0, a call whose every
\* service outcome is a rate-limit error (each handle rebuild succeeding) has
\* performed len(API_KEYS) - 1 rotations by the time it first sleeps or
\* returns.
C1_RotatesThroughPool ==
    \A t \in Threads :
        ( /\ gemini_api_key = NoKey
          /\ hist[t].startIdx = 0
          /\ AllRateLimited(t)
          /\ ~hist[t].rebFail
          /\ (hist[t].sleeps # <<>> \/ pc[t] = "done") )
        => hist[t].rot = Len(API_KEYS) - 1

\* ------------------------------------------------------------------ C2
\* C2: a call that returns after only rate-limit errors returns the "backup
\* keys remaining" message exactly when remaining_keys > 0 and the "all keys
\* exhausted" message exactly when remaining_keys = 0, and nothing else.
C2_ExhaustionMessages ==
    \A t \in Threads :
        (CallReturned(t) /\ AllRateLimited(t))
        => LET remaining == hist[t].rem[1]
           IN  \/ remaining > 0 /\ result[t] = Returned(QuotaExceededMessage(remaining))
               \/ remaining = 0 /\ result[t] = Returned(AllExhaustedMessage)

\* ------------------------------------------------------------------ C3
\* C3: a rotation is not a counted retry: the attempt index of the loop
\* counts the backoff retries only, so the invocation that follows a
\* rotation runs at the attempt index of the failed one.
C3_RotationKeepsAttempt ==
    \A t \in Threads :
        pc[t] = "invoke" => attempt[t] = Len(hist[t].sleeps)

\* ------------------------------------------------------------------ C4
\* C4: the cursor stays inside the pool in every reachable state, so the
\* status report never shows negative remaining keys or an ordinal beyond
\* the total.
C4_IndexInRange ==
    /\ 0 <= current_api_key_index
    /\ current_api_key_index < Len(API_KEYS)
    /\ get_current_api_status.remaining_keys >= 0
    /\ get_current_api_status.current_key_index <= get_current_api_status.total_keys

\* ------------------------------------------------------------------ C5
\* C5: no step decreases the cursor, and only the store of the rotation
\* step changes it.
C5_IndexNeverDecreases ==
    [][ /\ current_api_key_index' >= current_api_key_index
        /\ (current_api_key_index' # current_api_key_index
              => \E t \in Threads : pc[t] = "incr_write" /\ pc'[t] = "rebuild")
      ]_vars

\* ------------------------------------------------------------------ C6
\* The message the claim gives for a response without text.
NoTextMessage(o) ==
    IF o.kind = "no_candidates" THEN <<"Error:", "No response generated.">>
    ELSE IF o.payload = <<"SAFETY">>
         THEN <<"Error:", "Content blocked by safety filter.">>
         ELSE <<"Error:", "Empty response. Finish Reason:",
                IF o.payload = <<>> THEN "UNKNOWN" ELSE o.payload[1]>>

\* C6: the invocation that yields a response without text ends the call on
\* that attempt with the message of its kind, without a sleep or a change of
\* the cursor; the service has then been invoked once per attempt so far
\* (exactly once on the first attempt), and the returned call does nothing
\* more before the handler responds.
C6_NoTextIsTerminal ==
    [][ \A t \in Threads :
          /\ (InvokedBy(t) /\ IsNoTextOutcome(hist'[t].last))
               => /\ pc'[t] = "done"
                  /\ result'[t] = Returned(NoTextMessage(hist'[t].last))
                  /\ current_api_key_index' = current_api_key_index
                  /\ hist'[t].sleeps = hist[t].sleeps
                  /\ hist'[t].rot = hist[t].rot
                  /\ hist'[t].inv = attempt[t] + 1
                  /\ attempt'[t] = attempt[t]
          /\ (pc[t] = "done" /\ IsNoTextOutcome(hist[t].last))
               => (hist'[t] = hist[t] /\ result'[t] = result[t])
                  \/ pc'[t] = "idle"
      ]_vars

\* A safety block on the last attempt, after a rotation and a backoff, has
\* ended the call with the safety message.
C6_Witness ==
    \E t \in Threads :
        /\ CallReturned(t)
        /\ hist[t].last = [kind |-> "candidate", payload |-> <<"SAFETY">>]
        /\ attempt[t] = MAX_RETRIES - 1
        /\ hist[t].inv = MAX_RETRIES
        /\ hist[t].rot > 0
        /\ hist[t].sleeps # <<>>
        /\ result[t] = Returned(SafetyMessage)

\* ------------------------------------------------------------------ C7
\* C7: the invocation that raises a bad-credential error ends the call on
\* that attempt with the invalid-key message, without a sleep, a rotation or
\* a change of the cursor, whatever the attempt index and the keys left.
C7_BadCredentialIsTerminal ==
    [][ \A t \in Threads :
          /\ (InvokedBy(t) /\ IsBadCredentialOutcome(hist'[t].last))
               => /\ pc'[t] = "done"
                  /\ result'[t] = Returned(<<"Error:",
                        "Invalid or expired API key. Please check your API key configuration.">>)
                  /\ current_api_key_index' = current_api_key_index
                  /\ hist'[t].sleeps = hist[t].sleeps
                  /\ hist'[t].rot = hist[t].rot
                  /\ attempt'[t] = attempt[t]
          /\ (pc[t] = "done" /\ IsBadCredentialOutcome(hist[t].last))
               => (hist'[t] = hist[t] /\ result'[t] = result[t])
                  \/ pc'[t] = "idle"
      ]_vars

\* A bad-credential error on a later attempt, with successor keys left, has
\* ended the call.
C7_Witness ==
    \E t \in Threads :
        /\ CallReturned(t)
        /\ IsBadCredentialOutcome(hist[t].last)
        /\ attempt[t] >= 1
        /\ current_api_key_index < Len(API_KEYS) - 1
        /\ result[t] = Returned(BadKeyMessage)

\* ------------------------------------------------------------------ C8
\* C8: no call ends by raising: a call that has ended has returned a string.
C8_NeverRaises ==
    \A t \in Threads :
        /\ result[t].how # "raise"
        /\ CallReturned(t) => (result[t].how = "return" /\ result[t].value # <<>>)

\* A call in which the handle rebuild raised has returned a string.
C8_Witness ==
    \E t \in Threads :
        CallReturned(t) /\ hist[t].rebFail /\ result[t].how = "return"

\* ------------------------------------------------------------------ C9
\* C9: every failure outcome of a call begins with the marker "Error:".
C9_FailuresStartWithErrorMarker ==
    \A t \in Threads :
        (CallReturned(t) /\ hist[t].last.kind # "text")
        => (result[t].how = "return" /\ StartsWithErrorMarker(result[t].value))

\* ------------------------------------------------------------------ C10
\* C10: with one request at a time, once the cursor is at the last
\* credential no step changes it, a rate-limit error there takes the
\* no-successor path, and the final-attempt branch then gives the
\* all-keys-exhausted message.
C10_ExhaustedAdvanceIdempotent ==
    [][ current_api_key_index = Len(API_KEYS) - 1
        => /\ current_api_key_index' = current_api_key_index
           /\ \A t \in Threads :
                /\ (pc[t] = "rotate_check" /\ pc'[t] # "rotate_check")
                     => pc'[t] = "backoff"
                /\ (pc[t] = "backoff" /\ pc'[t] = "done")
                     => result'[t] = Returned(AllExhaustedMessage)
      ]_vars

\* A call that started on the last credential of a pool of several keys was
\* rate-limited on all its attempts and left the cursor where it was.
C10_Witness ==
    \E t \in Threads :
        /\ CallReturned(t)
        /\ AllRateLimited(t)
        /\ Len(API_KEYS) > 1
        /\ hist[t].startIdx = Len(API_KEYS) - 1
        /\ current_api_key_index = Len(API_KEYS) - 1
        /\ hist[t].inv = MAX_RETRIES
        /\ hist[t].rot = 0
        /\ result[t] = Returned(AllExhaustedMessage)

\* ------------------------------------------------------------------ C11
\* The credential the claim says create_gemini_model resolves: <<credential>>,
\* or <<>> for the pool-exhausted failure.
ResolvedCredential ==
    IF gemini_api_key # "" THEN <<gemini_api_key>>
    ELSE IF current_api_key_index < Len(API_KEYS)
         THEN <<API_KEYS[current_api_key_index + 1]>>
         ELSE <<>>

RECURSIVE TwoToThe(_)
TwoToThe(k) == IF k = 0 THEN 1 ELSE 2 * TwoToThe(k - 1)

\* C15: the list of sleeps of a call grows only by the step that leaves the
\* backoff branch on an attempt k that is not the last, after a rate-limit
\* error, and grows by BASE_DELAY * 2^k; the backoff branch is entered only
\* when there is no successor credential or when the handle rebuild failed;
\* a successful rotation and the backoff branch of the last attempt sleep
\* for nothing.
C15_BackoffSleeps ==
    [][ \A t \in Threads :
          /\ (hist'[t].sleeps # hist[t].sleeps /\ pc[t] # "done")
               => /\ pc[t] = "backoff" /\ pc'[t] = "invoke"
                  /\ attempt[t] < MAX_RETRIES - 1
                  /\ attempt'[t] = attempt[t] + 1
                  /\ IsRateLimitOutcome(hist[t].last)
                  /\ hist'[t].sleeps =
                        Append(hist[t].sleeps, BASE_DELAY * TwoToThe(attempt[t]))
          /\ (pc'[t] = "backoff" /\ pc[t] # "backoff")
               => \/ /\ pc[t] = "rotate_check"
                     /\ current_api_key_index >= Len(API_KEYS) - 1
                  \/ /\ pc[t] = "rebuild"
                     /\ hist'[t].rebFail
                     /\ model'[t] = model[t]
          /\ (pc[t] = "rebuild" /\ pc'[t] = "invoke")
               => hist'[t].sleeps = hist[t].sleeps
          /\ (pc[t] = "backoff" /\ attempt[t] = MAX_RETRIES - 1)
               => pc'[t] = "done" /\ hist'[t].sleeps = hist[t].sleeps
      ]_vars

\* After a rotation on attempt 0, attempt 1 found no successor and slept for
\* BASE_DELAY * 2^1.
C15_Witness ==
    \E t \in Threads :
        /\ pc[t] = "invoke"
        /\ hist[t].rot = 1
        /\ ~hist[t].rebFail
        /\ hist[t].sleeps = <<2 * BASE_DELAY>>

\* ------------------------------------------------------------------ C16
\* C16: a call that returned the fall-through message slept after every one
\* of its attempts (every attempt hit the backoff branch) before the loop
\* ended.
C16_FallThroughOnlyAfterBackoffs ==
    \A t \in Threads :
        (CallReturned(t) /\ result[t] = Returned(FallThroughMessage))
        => /\ hist[t].rot = 0
           /\ Len(hist[t].sleeps) = hist[t].inv

\* ------------------------------------------------------------------ C17
\* C17: the invocation that yields text ends the call with exactly that
\* text, on the first attempt or after rotations and backoffs; the step
\* changes neither the cursor nor the sleeps nor the rotations, and until
\* the handler responds, and when it responds, the cursor stays where the
\* rotations left it.
C17_TextEndsCall ==
    [][ \A t \in Threads :
          /\ (InvokedBy(t) /\ hist'[t].last.kind = "text")
               => /\ pc'[t] = "done"
                  /\ result'[t] = Returned(hist'[t].last.payload)
                  /\ hist'[t].last.payload # <<>>
                  /\ current_api_key_index' = current_api_key_index
                  /\ hist'[t].sleeps = hist[t].sleeps
                  /\ hist'[t].rot = hist[t].rot
          /\ (pc[t] = "done" /\ hist[t].last.kind = "text")
               => /\ current_api_key_index' = current_api_key_index
                  /\ \/ hist'[t] = hist[t] /\ result'[t] = result[t]
                     \/ pc'[t] = "idle"
      ]_vars

\* Text on the third attempt, after a rotation and a backoff: the call has
\* returned and the cursor is where the rotation left it.
C17_Witness ==
    \E t \in Threads :
        /\ CallReturned(t)
        /\ hist[t].last.kind = "text"
        /\ result[t] = Returned(hist[t].last.payload)
        /\ hist[t].inv = MAX_RETRIES
        /\ hist[t].rot = 1
        /\ Len(hist[t].sleeps) = 1
        /\ current_api_key_index = hist[t].startIdx + 1

\* ------------------------------------------------------------------ C18
\* The error message holds a keyword of the set, in any letter case.
HoldsKeyword(msg, kws) ==
    \E i \in DOMAIN msg : LowerFragment(msg[i]) \in kws

\* The class of an error message, by the first set with a match.
ErrorClassOf(msg) ==
    IF HoldsKeyword(msg, {"429", "quota", "rate limit"}) THEN "rate_limit"
    ELSE IF HoldsKeyword(msg, {"400", "api key", "invalid", "expired"})
         THEN "bad_credential"
         ELSE "other"

\* C18: an invocation that raises a service error takes the path of the
\* first class with a keyword in the message, in any letter case: the
\* rate-limit path (the successor test) even when the message also holds a
\* bad-credential keyword, the invalid-key message for a bad-credential
\* keyword alone, and 'Error during summarization: <message>' for a message
\* with no keyword.
C18_ClassificationOrder ==
    [][ \A t \in Threads :
          (InvokedBy(t) /\ hist'[t].last.kind = "error")
          => LET msg == hist'[t].last.payload
             IN  CASE ErrorClassOf(msg) = "rate_limit" ->
                        /\ pc'[t] = "rotate_check"
                        /\ result'[t] = result[t]
                   [] ErrorClassOf(msg) = "bad_credential" ->
                        /\ pc'[t] = "done"
                        /\ result'[t] = Returned(BadKeyMessage)
                   [] OTHER ->
                        /\ pc'[t] = "done"
                        /\ result'[t] =
                             Returned(<<"Error", "during summarization:">> \o msg)
      ]_vars

\* A message with keywords of both classes, in upper case, has taken the
\* rate-limit path.
C18_Witness ==
    \E t \in Threads :
        /\ pc[t] = "rotate_check"
        /\ hist[t].last.kind = "error"
        /\ HoldsKeyword(hist[t].last.payload, {"429", "quota", "rate limit"})
        /\ HoldsKeyword(hist[t].last.payload,
                        {"400", "api key", "invalid", "expired"})

\* ------------------------------------------------------------------ C19
\* C19: a call invokes the service at most MAX_RETRIES times, rotates at
\* most MAX_RETRIES times and sleeps at most MAX_RETRIES - 1 times, whatever
\* the pool size, and every call that has started returns.
C19_CallTerminates ==
    /\ [](\A t \in Threads :
            /\ hist[t].inv <= MAX_RETRIES
            /\ hist[t].rot <= MAX_RETRIES
            /\ Len(hist[t].sleeps) <= MAX_RETRIES - 1)
    /\ \A t \in Threads :
          (pc[t] \notin {"idle", "done"}) ~> (pc[t] = "done")

\* A call has returned after MAX_RETRIES invocations, each followed by a
\* rotation.
C19_Witness ==
    \E t \in Threads :
        /\ CallReturned(t)
        /\ hist[t].inv = MAX_RETRIES
        /\ hist[t].rot = MAX_RETRIES

\* ------------------------------------------------------------------ C20
\* No request has been answered yet, so the history of every call made so
\* far is still in hist.
HistoryIntact == calls = Cardinality({u \in Threads : pc[u] # "idle"})

\* C20: as long as no handle rebuild has failed, no call returns the
\* 'backup keys remaining but all failed' message: the final-attempt branch
\* never computes a positive remaining_keys.
C20_NoBackupKeysMessage ==
    (HistoryIntact /\ \A u \in Threads : ~hist[u].rebFail)
    => \A t \in Threads :
         (CallReturned(t) /\ hist[t].rem # <<>>
            /\ result[t] # Returned(FallThroughMessage))
         => /\ hist[t].rem[1] <= 0
            /\ result[t] = Returned(AllExhaustedMessage)

\* ------------------------------------------------------------------ C12
\* C12: a call of summarize_transcript or summarize_transcript_advanced with
\* an empty transcript returns exactly 'Error: Transcript is empty.' for
\* every style, detail level and translation, builds no prompt, invokes the
\* service not once and leaves the cursor where it was.
C12_EmptyTranscript ==
    [][ \A t \in Threads :
          /\ (pc[t] = "idle" /\ req'[t].fn # "none" /\ req'[t].transcript = <<>>)
               => /\ pc'[t] = "done"
                  /\ result'[t] = Returned(<<"Error:", "Transcript is empty.">>)
                  /\ req'[t].prompt = <<>>
                  /\ hist'[t].inv = 0
                  /\ current_api_key_index' = current_api_key_index
          /\ (pc[t] = "done" /\ req[t].fn # "none" /\ req[t].transcript = <<>>)
               => /\ pc'[t] \in {"done", "idle"}
                  /\ hist'[t].inv = 0
                  /\ current_api_key_index' = current_api_key_index
      ]_vars

\* The advanced function, called with an empty transcript and non-default
\* options after an earlier call moved the cursor, has returned the message.
C12_Witness ==
    \E t \in Threads :
        /\ pc[t] = "done"
        /\ req[t].fn = "summarize_transcript_advanced"
        /\ req[t].transcript = <<>>
        /\ req[t].summary_style = "timeline"
        /\ req[t].detail_level = "detailed"
        /\ req[t].translate_to = "es"
        /\ result[t] = Returned(EmptyTranscriptMessage)
        /\ hist[t].inv = 0
        /\ current_api_key_index > 0

\* ------------------------------------------------------------------ C13
\* The character at position i of a text.
RECURSIVE CharAt(_, _)
CharAt(x, i) == IF i <= x[1].n THEN x[1].ch ELSE CharAt(Tail(x), i - x[1].n)

\* The positions where a run of the text starts.
RunStarts(x) == {1 + TextLen(SubSeq(x, 1, k)) : k \in 0..(Len(x) - 1)}

\* The two texts have the same characters at positions 1..n (both are
\* constant between the run starts of either).
SamePrefix(x, y, n) ==
    \A i \in (RunStarts(x) \cup RunStarts(y)) \cap 1..n :
        CharAt(x, i) = CharAt(y, i)

\* The budget the claim gives to a call.
BudgetOf(r) ==
    IF r.fn = "summarize_transcript_advanced" /\ r.detail_level = "brief"
    THEN 6000
    ELSE IF r.fn = "summarize_transcript_advanced" /\ r.detail_level = "detailed"
         THEN 12000
         ELSE 8000

\* C13: the transcript segment of a built prompt is, for a transcript longer
\* than the budget (brief 6000, detailed 12000, otherwise 8000), its first
\* budget characters followed by '...', of length budget + 3; a transcript
\* of at most the budget is placed unchanged.
C13_TruncationBudget ==
    \A t \in Threads :
        req[t].prompt # <<>>
        => LET x == req[t].transcript
               seg == req[t].prompt[1].transcript
               budget == BudgetOf(req[t])
           IN  IF TextLen(x) > budget
               THEN /\ TextLen(seg) = budget + 3
                    /\ SamePrefix(seg, x, budget)
                    /\ \A i \in (budget + 1)..(budget + 3) : CharAt(seg, i) = "."
               ELSE seg = x

\* A detailed summary of a transcript one character over the budget: the
\* segment has 12003 characters.
C13_Witness ==
    \E t \in Threads :
        /\ req[t].prompt # <<>>
        /\ req[t].detail_level = "detailed"
        /\ TextLen(req[t].transcript) = 12001
        /\ TextLen(req[t].prompt[1].transcript) = 12003

\* ------------------------------------------------------------------ C14
\* The position after the first "v=" of the URL, 0 if there is none.
AfterFirstVEq(u) ==
    LET at == {i \in 1..(Len(u) - 1) : u[i] = "v" /\ u[i + 1] = "="}
    IN  IF at = {} THEN 0
        ELSE 2 + CHOOSE i \in at : \A j \in at : i <= j

\* The text after the last "/" (the whole URL if there is none).
AfterLastSlash(u) ==
    LET at == {i \in 1..Len(u) : u[i] = "/"}
    IN  IF at = {} THEN u
        ELSE SubSeq(u, 1 + (CHOOSE i \in at : \A j \in at : i >= j), Len(u))

\* The text from position start up to the first position in stops.
UpToFirst(u, start, stops) ==
    IF stops = {} THEN SubSeq(u, start, Len(u))
    ELSE SubSeq(u, start, (CHOOSE i \in stops : \A j \in stops : i <= j) - 1)

\* C14 as stated: the video ID is the text after the first 'v=' up to the
\* next '&' when 'v=' occurs in the URL, otherwise the text after the last
\* '/'.
C14_IdUpToAmpersand ==
    fetch.stage = "extracted"
    => LET u == fetch.video_url
           start == AfterFirstVEq(u)
       IN  fetch.video_id =
             IF start # 0
             THEN UpToFirst(u, start, {i \in start..Len(u) : u[i] = "&"})
             ELSE AfterLastSlash(u)

\* C14, amended: the video ID is the text after the first 'v=' up to the
\* next '&' or the next 'v=', whichever comes first, when 'v=' occurs in the
\* URL, otherwise the text after the last '/'.
C14_IdUpToAmpersandOrVEq ==
    fetch.stage = "extracted"
    => LET u == fetch.video_url
           start == AfterFirstVEq(u)
       IN  fetch.video_id =
             IF start # 0
             THEN UpToFirst(u, start,
                    {i \in start..Len(u) :
                        \/ u[i] = "&"
                        \/ i < Len(u) /\ u[i] = "v" /\ u[i + 1] = "="})
             ELSE AfterLastSlash(u)

\* The ID of a URL with a second 'v=' before the end has been cut there.
C14_Witness ==
    /\ fetch.stage = "extracted"
    /\ fetch.video_url = <<"v", "=", "a", "v", "=">>
    /\ fetch.video_id = <<"a">>

IsJoinOf(x, texts) ==
    /\ Len(x) = IF texts = <<>> THEN 0 ELSE 2 * Len(texts) - 1
    /\ \A k \in DOMAIN texts : x[2 * k - 1] = texts[k]
    /\ \A k \in 1..(Len(texts) - 1) : x[2 * k] = " "

\* The source offers a transcript in the language.
OffersLanguage(offered, lc) ==
    \E i \in DOMAIN offered : offered[i].language_code = lc

\* The texts of the first transcript the source offers in the language.
TextsIn(offered, lc) ==
    offered[CHOOSE i \in DOMAIN offered :
                /\ offered[i].language_code = lc
                /\ \A j \in 1..(i - 1) : offered[j].language_code # lc].texts

\* C22: a call of get_youtube_transcript that has returned, returned None or
\* a string. With a language code it made one request, for that language
\* only and without listing, and returned None when the source offers no
\* transcript in it, else that language's texts. Without a language code it
\* listed the transcripts, returned None without a request when none is
\* offered, and else made one request with every offered language in source
\* order. Whenever the source raised, the call returned None; a string it
\* returned is the texts in source order joined by single spaces.
C22_TranscriptRetrieval ==
    yt.stage = "returned"
    => LET lc == yt.language_code
           off == yt.offered
           codes == [i \in DOMAIN off |-> off[i].language_code]
       IN  /\ yt.ret.kind \in {"None", "str"}
           /\ yt.failed => yt.ret = [kind |-> "None", text |-> <<>>]
           /\ lc # ""
                => /\ ~yt.listed
                   /\ yt.requested = <<[video_id |-> fetch.video_id,
                                        languages |-> <<lc>>]>>
                   /\ ~OffersLanguage(off, lc) => yt.ret.kind = "None"
                   /\ yt.ret.kind = "str"
                        => /\ OffersLanguage(off, lc)
                           /\ IsJoinOf(yt.ret.text, TextsIn(off, lc))
                   /\ (OffersLanguage(off, lc) /\ ~yt.failed)
                        => yt.ret.kind = "str"
           /\ lc = ""
                => /\ yt.listed
                   /\ codes = <<>>
                        => yt.ret.kind = "None" /\ yt.requested = <<>>
                   /\ yt.requested # <<>>
                        => yt.requested = <<[video_id |-> fetch.video_id,
                                             languages |-> codes]>>
                   /\ yt.ret.kind = "str"
                        => /\ yt.requested # <<>>
                           /\ IsJoinOf(yt.ret.text, off[1].texts)
                   /\ (codes # <<>> /\ ~yt.failed) => yt.ret.kind = "str"

\* The source offers English and Spanish, German was asked for: the call
\* requested German only and returned None without an error of the source
\* other than the missing language.
C22_Witness ==
    /\ yt.stage = "returned"
    /\ yt.language_code = "de"
    /\ Len(yt.offered) = 2
    /\ yt.offered[1].language_code # yt.offered[2].language_code
    /\ ~yt.failed
    /\ yt.requested = <<[video_id |-> fetch.video_id, languages |-> <<"de">>]>>
    /\ yt.ret = NoneValue

====
